---- MODULE Spec2Model ----
(***************************************************************************)
(* The four toolchain installers (install_gcc.py, install_llvm.py,         *)
(* install_aocc.py, install_intel.py) as one state machine.  A run is one  *)
(* invocation of one script's main(); runs are sequential.  Every call     *)
(* main() makes is one action; an external command's exit status, an HTTP  *)
(* response and a filesystem error are inputs drawn with \E.               *)
(***************************************************************************)
EXTENDS Integers, Sequences, FiniteSets, TLC

VARIABLES
    fs,       \* the host's persistent state: installation trees, working
              \* directory, module files, ~/.bashrc
    run,      \* the current (or last) invocation: family, argv, version, install_dir
    status,   \* "idle" before the first run, "running", "exited"
    pc,       \* index in Steps of the next call main() makes
    exit,     \* exit status of the last finished run
    trace,    \* the calls the current run has made, with their outcomes
    atStart,  \* fs as it was when the current run started
    prev,     \* the run before the current one and its exit status
    profile0, \* ~/.bashrc as it was before the first run
    runs,     \* number of runs started
    shell     \* runs executing at the same time: where each is in the end of
              \* main() (used by SpecConcurrent only)

vars == <<fs, run, status, pc, exit, trace, atStart, prev, profile0, runs, shell>>

(***************************************************************************)
(* Bounds                                                                  *)
(***************************************************************************)
MaxRuns == 2
MaxChunks == 2

(***************************************************************************)
(* Program constants                                                       *)
(***************************************************************************)
ProgressBarLength == 50
BuildLlvmParams == 1

Families == {"gcc", "llvm", "aocc", "intel"}

GccDefaultVersion == "14.2.0"
LlvmDefaultVersion == "19.1.3"
AoccVersion == "5.0.0"

\* Command lines tried: sys.argv of each script.
Argvs(fam) ==
    CASE fam = "gcc"   -> {<<"install_gcc.py">>, <<"install_gcc.py", "">>,
                           <<"install_gcc.py", "14.2.0">>, <<"install_gcc.py", "13.2.0">>}
      [] fam = "llvm"  -> {<<"install_llvm.py">>, <<"install_llvm.py", "">>,
                           <<"install_llvm.py", "19.1.3">>}
      [] fam = "aocc"  -> {<<"install_aocc.py">>}
      [] fam = "intel" -> {<<"install_intel.py">>, <<"install_intel.py", "2025.0">>}

\* Versions a run can end up with.
VersionsOf(fam) ==
    CASE fam = "gcc"   -> {"14.2.0", "13.2.0"}
      [] fam = "llvm"  -> {"19.1.3"}
      [] fam = "aocc"  -> {"5.0.0"}
      [] fam = "intel" -> {"2025.0"}

(***************************************************************************)
(* main(): argument handling and the Planner's computations                *)
(***************************************************************************)
\* if len(sys.argv) < 2: usage()   (install_aocc.py never calls usage)
UsageError(fam, argv) ==
    IF fam = "aocc" THEN FALSE ELSE Len(argv) < 2

\* version = sys.argv[1]; if not version: version = <default>
ResolveVersion(fam, argv) ==
    CASE fam = "gcc"   -> IF argv[2] = "" THEN GccDefaultVersion ELSE argv[2]
      [] fam = "llvm"  -> IF argv[2] = "" THEN LlvmDefaultVersion ELSE argv[2]
      [] fam = "aocc"  -> AoccVersion
      [] fam = "intel" -> argv[2]

InstallDirFamilyName(fam, version) ==
    "~/compiler_installation/" \o fam \o "-" \o version

\* install_dir = os.path.expanduser(f"~/compiler_installation/<name>-{version}")
InstallDir(fam, version) ==
    CASE fam = "gcc"   -> "~/compiler_installation/gcc-" \o version
      [] fam = "llvm"  -> "~/compiler_installation/llvm-" \o version
      [] fam = "aocc"  -> "~/compiler_installation/aocc-compiler-" \o version
      [] fam = "intel" -> "~/compiler_installation/intel-" \o version

\* modulefile_path = ~/compiler_modulefiles/<family>/<family>-{version}
ModulePath(fam, version) ==
    "~/compiler_modulefiles/" \o fam \o "/" \o fam \o "-" \o version

InstallDirs == UNION {{InstallDir(f, v) : v \in VersionsOf(f)} : f \in Families}
ModulePaths == UNION {{ModulePath(f, v) : v \in VersionsOf(f)} : f \in Families}

\* The path whose presence main() takes as "already installed".
Marker(fam, dir) ==
    CASE fam = "gcc"   -> dir \o "/bin/gcc"
      [] fam = "llvm"  -> dir \o "/bin/clang"
      [] fam = "aocc"  -> "(none)"
      [] fam = "intel" -> dir

DirExists(f, dir) == f.tree[dir] # "absent"

AlreadyInstalledNever(fam, f, dir) == FALSE

\* The already-installed test of main(): os.path.isfile(install_dir/bin/gcc),
\* os.path.isfile(install_dir/bin/clang), os.path.isdir(install_dir); the AOCC
\* script has no such test.
AlreadyInstalled(fam, f, dir) ==
    CASE fam = "gcc"   -> Marker(fam, dir) \in f.files
      [] fam = "llvm"  -> Marker(fam, dir) \in f.files
      [] fam = "aocc"  -> FALSE
      [] fam = "intel" -> DirExists(f, dir)

PipelineRegisterFirst(fam) ==
    <<"install_packages", "create_module_file", "update_bashrc",
      "install_environment_modules">>

\* The calls main() makes after the already-installed test, in order.
Pipeline(fam) ==
    CASE fam = "gcc"   -> <<"install_packages", "install_environment_modules",
                            "download_gcc", "extract_gcc", "configure_gcc",
                            "compile_gcc", "install_gcc",
                            "create_module_file", "update_bashrc">>
      [] fam = "llvm"  -> <<"install_packages", "install_environment_modules",
                            "clone_llvm", "build_llvm", "copy_openmp_library",
                            "create_module_file", "update_bashrc">>
      [] fam = "aocc"  -> <<"install_environment_modules", "install_packages",
                            "download_aocc", "extract_aocc",
                            "create_module_file", "update_bashrc">>
      [] fam = "intel" -> <<"install_packages", "install_environment_modules",
                            "extract_and_install",
                            "create_module_file", "update_bashrc">>

\* The calls main() makes when the already-installed test succeeds.
SkipPipeline == <<"create_module_file", "update_bashrc">>

Steps == IF run.skip THEN SkipPipeline ELSE Pipeline(run.fam)

Cur == IF status = "running" /\ pc \in 1..Len(Steps) THEN Steps[pc] ELSE "none"

(***************************************************************************)
(* Initial state                                                           *)
(***************************************************************************)
\* ~/.bashrc is a sequence of pieces of text; Needle is the piece the test
\* 'export MODULEPATH' in content looks for.
Needle == "export MODULEPATH"
ExportLine == <<Needle, "=${MODULEPATH}:$HOME/compiler_modulefiles", "\n">>

InitialProfiles ==
    { [exists |-> TRUE,  content |-> <<>>],
      [exists |-> TRUE,  content |-> <<"alias ll='ls -l'", "\n">>],
      [exists |-> FALSE, content |-> <<>>] }

NoRun == [fam |-> "none", argv |-> <<>>, version |-> "", install_dir |-> "",
          usage |-> FALSE, skip |-> FALSE]

WorkFiles ==
    {"gcc-" \o v \o ".tar.gz" : v \in VersionsOf("gcc")}
    \cup {"gcc-" \o v : v \in VersionsOf("gcc")}
    \cup {"llvm-project", "aocc-compiler-5.0.0.tar"}

\* Profiles in which the test 'export MODULEPATH' in content finds the words
\* in text that is not the export line: an export of another path, a
\* commented-out export.
OtherProfiles ==
    { [exists |-> TRUE, content |-> <<Needle, "=/opt/modules", "\n">>],
      [exists |-> TRUE, content |-> <<"# ", Needle, "=/opt/modules", "\n">>] }

InitWith(profiles) ==
    /\ \E p \in profiles :
          /\ profile0 = p
          /\ fs = [tree     |-> [d \in InstallDirs |-> "absent"],
                   files    |-> {},
                   work     |-> [w \in WorkFiles |-> "absent"],
                   modfiles |-> [m \in ModulePaths |-> [exists |-> FALSE, content |-> <<>>]],
                   bashrc   |-> p]
    /\ run = NoRun
    /\ status = "idle"
    /\ pc = 0
    /\ exit = 0
    /\ trace = <<>>
    /\ atStart = fs
    /\ prev = [run |-> NoRun, exit |-> 0]
    /\ runs = 0

\* The processes of concurrent runs; in the sequential specifications there
\* are none at work.
Procs == {"p1", "p2"}
NoProc == [fam |-> "none", version |-> "", install_dir |-> "", pc |-> "off",
           content |-> <<>>, ret |-> "None", exit |-> 0]
ShellOff == [proc |-> [p \in Procs |-> NoProc]]

Init == InitWith(InitialProfiles) /\ shell = ShellOff

(***************************************************************************)
(* main() up to its first call                                             *)
(***************************************************************************)
\* os.makedirs(install_dir, exist_ok=True)
MakeDirs(f, dir) ==
    [f EXCEPT !.tree[dir] = IF @ = "absent" THEN "empty" ELSE @]

\* usage(): print the usage text, sys.exit(1).  Nothing on the host changes.
UsageExitsZero(f) == [fs |-> f, exit |-> 0]
Usage(f) == [fs |-> f, exit |-> 1]

Start ==
    /\ status \in {"idle", "exited"}
    /\ runs < MaxRuns
    /\ \E fam \in Families : \E argv \in Argvs(fam) :
          /\ runs' = runs + 1
          /\ prev' = [run |-> run, exit |-> exit]
          /\ trace' = <<>>
          /\ atStart' = fs
          /\ UNCHANGED <<profile0, shell>>
          /\ IF UsageError(fam, argv)
             THEN /\ run' = [fam |-> fam, argv |-> argv, version |-> "",
                             install_dir |-> "", usage |-> TRUE, skip |-> FALSE]
                  /\ status' = "exited"
                  /\ exit' = Usage(fs).exit
                  /\ pc' = 0
                  /\ fs' = Usage(fs).fs
             ELSE LET version == ResolveVersion(fam, argv)
                      dir == InstallDir(fam, version)
                      skip == AlreadyInstalled(fam, fs, dir)
                  IN  /\ run' = [fam |-> fam, argv |-> argv, version |-> version,
                                 install_dir |-> dir, usage |-> FALSE, skip |-> skip]
                      /\ status' = "running"
                      /\ exit' = 0
                      /\ pc' = 1
                      /\ fs' = IF skip THEN fs ELSE MakeDirs(fs, dir)

(***************************************************************************)
(* What every call of main() ends with                                     *)
(***************************************************************************)
\* Outcomes of a call: "ok"; "failed", an external command, the network or
\* the filesystem failed; "raised", Python raised an error that no command,
\* network or filesystem failure caused.
Outcome(ok) == IF ok THEN "ok" ELSE "failed"

\* except ... : print(...); sys.exit(1)  -- and an uncaught exception ends the
\* interpreter with status 1 as well.
SysExitIgnored(out) == FALSE
SysExit(out) == out # "ok"

\* The call `step` has ended with `out`; `cached` says the step's skip test
\* was true, `net` that it went to the network, `ret` is the value returned.
Return(step, out, cached, net, ret) ==
    /\ trace' = Append(trace, [step |-> step, out |-> out, cached |-> cached,
                               net |-> net, ret |-> ret])
    /\ IF SysExit(out)
       THEN status' = "exited" /\ exit' = 1 /\ pc' = pc
       ELSE IF pc = Len(Steps)
            THEN status' = "exited" /\ exit' = 0 /\ pc' = pc
            ELSE status' = "running" /\ exit' = exit /\ pc' = pc + 1
    /\ UNCHANGED <<run, atStart, prev, profile0, runs, shell>>

(***************************************************************************)
(* Prerequisites                                                           *)
(***************************************************************************)
\* sudo apt update; sudo apt install ... -y
InstallPackages ==
    /\ Cur = "install_packages"
    /\ \E ok \in BOOLEAN : Return("install_packages", Outcome(ok), FALSE, FALSE, "None")
    /\ UNCHANGED fs

\* if not check_command("module"): sudo apt install environment-modules
InstallEnvironmentModules ==
    /\ Cur = "install_environment_modules"
    /\ \E present \in BOOLEAN, ok \in BOOLEAN :
          Return("install_environment_modules",
                 IF present THEN "ok" ELSE Outcome(ok), present, FALSE, "None")
    /\ UNCHANGED fs

(***************************************************************************)
(* GCC: download, extract, configure, compile, install                     *)
(***************************************************************************)
GccTarball(version) == "gcc-" \o version \o ".tar.gz"
GccSource(version) == "gcc-" \o version

\* The loop of download_gcc over response.iter_content: chunk i is written,
\* then the progress is computed as int(50 * downloaded_size / total_size).
\* `breakAt` chunks arrive before the transport fails (breakAt = nchunks: it
\* does not).  The result is the number of chunks written and the outcome.
RECURSIVE DownloadLoop(_, _, _, _)
DownloadLoop(i, nchunks, breakAt, total_size) ==
    IF i > nchunks THEN [written |-> nchunks, out |-> "ok"]
    ELSE IF i > breakAt THEN [written |-> i - 1, out |-> "failed"]
    ELSE IF total_size = 0 THEN [written |-> i, out |-> "raised"]
    ELSE LET done == (ProgressBarLength * i) \div total_size
         IN  DownloadLoop(i + 1, nchunks, breakAt, total_size)

\* if not os.path.isfile(tarball): requests.get ... else: skip
DownloadGcc ==
    /\ Cur = "download_gcc"
    /\ LET tarball == GccTarball(run.version) IN
       IF fs.work[tarball] # "absent"
       THEN /\ Return("download_gcc", "ok", TRUE, FALSE, "None")
            /\ UNCHANGED fs
       ELSE \E status_ok \in BOOLEAN, nchunks \in 0..MaxChunks :
            \E breakAt \in 0..nchunks, total_size \in {0, nchunks} :
               IF ~status_ok
               THEN /\ Return("download_gcc", "failed", FALSE, TRUE, "None")
                    /\ UNCHANGED fs
               ELSE LET r == DownloadLoop(1, nchunks, breakAt, total_size) IN
                    /\ Return("download_gcc", r.out, FALSE, TRUE, "None")
                    /\ fs' = [fs EXCEPT !.work[tarball] =
                                 IF r.written = nchunks /\ breakAt = nchunks
                                 THEN "complete" ELSE "truncated"]

\* tarfile.open(tarball, "r:gz").extractall()
ExtractGcc ==
    /\ Cur = "extract_gcc"
    /\ LET tarball == GccTarball(run.version)
           src == GccSource(run.version) IN
       \E ok \in BOOLEAN :
          LET good == ok /\ fs.work[tarball] = "complete" IN
          /\ Return("extract_gcc", Outcome(good), FALSE, FALSE, "None")
          /\ fs' = [fs EXCEPT !.work[src] = IF good THEN "complete" ELSE "truncated"]

\* os.chdir(f"gcc-{version}"); ./configure --prefix={install_dir} ...
ConfigureGcc ==
    /\ Cur = "configure_gcc"
    /\ \E ok \in BOOLEAN :
          Return("configure_gcc",
                 IF fs.work[GccSource(run.version)] = "absent" THEN "failed" ELSE Outcome(ok),
                 FALSE, FALSE, "None")
    /\ UNCHANGED fs

\* make
CompileGcc ==
    /\ Cur = "compile_gcc"
    /\ \E ok \in BOOLEAN : Return("compile_gcc", Outcome(ok), FALSE, FALSE, "None")
    /\ UNCHANGED fs

\* sudo make install: on success the tree under install_dir is complete and
\* holds bin/gcc; a failing install leaves a partial tree, with or without
\* bin/gcc.
InstallGcc ==
    /\ Cur = "install_gcc"
    /\ LET dir == run.install_dir IN
       \E ok \in BOOLEAN, copied \in BOOLEAN :
          /\ Return("install_gcc", Outcome(ok), FALSE, FALSE, "None")
          /\ fs' = [fs EXCEPT
                      !.tree[dir] = IF ok THEN "complete"
                                    ELSE IF @ = "complete" THEN @ ELSE "partial",
                      !.files = IF ok \/ copied THEN @ \cup {dir \o "/bin/gcc"} ELSE @]

(***************************************************************************)
(* LLVM: clone, build                                                      *)
(***************************************************************************)
\* git clone --depth 1 --branch=llvmorg-{version} .../llvm-project.git
\* There is no test for an existing clone: git refuses a destination that
\* exists and is not empty, and removes what it created when it fails.
CloneLlvm ==
    /\ Cur = "clone_llvm"
    /\ LET had == fs.work["llvm-project"] # "absent" IN
       \E ok \in BOOLEAN :
          LET good == ok /\ ~had IN
          /\ Return("clone_llvm", Outcome(good), had, TRUE, "None")
          /\ fs' = [fs EXCEPT !.work["llvm-project"] =
                       IF good THEN "complete" ELSE @]

\* def build_llvm(install_dir): cmake -S/-B, cmake --build, cmake --install
BuildLlvmBody(f, dir, ok, copied) ==
    [f EXCEPT !.tree[dir] = IF ok THEN "complete"
                            ELSE IF @ = "complete" THEN @ ELSE "partial",
              !.files = IF ok \/ copied THEN @ \cup {dir \o "/bin/clang"} ELSE @]

\* main(): build_llvm(version, install_dir) -- two arguments for a function
\* of BuildLlvmParams parameters: Python raises TypeError before the body runs.
BuildLlvm ==
    /\ Cur = "build_llvm"
    /\ LET args == <<run.version, run.install_dir>> IN
       IF Len(args) # BuildLlvmParams
       THEN /\ Return("build_llvm", "raised", FALSE, FALSE, "None")
            /\ UNCHANGED fs
       ELSE \E ok \in BOOLEAN, copied \in BOOLEAN :
               /\ Return("build_llvm", Outcome(ok), FALSE, FALSE, "None")
               /\ fs' = BuildLlvmBody(fs, args[Len(args)], ok, copied)

\* copy_openmp_library(install_dir): cp lib/x86_64-unknown-linux-gnu/libomp.so
\* lib/libomp.so when the source is a file.  main() calls it after build_llvm
\* has returned, which it never does: the step is no disjunct of Next.
CopyOpenmpLibrary ==
    /\ Cur = "copy_openmp_library"
    /\ LET source_libomp == run.install_dir \o "/lib/x86_64-unknown-linux-gnu/libomp.so"
           destination_libomp == run.install_dir \o "/lib/libomp.so" IN
       IF source_libomp \in fs.files
       THEN \E ok \in BOOLEAN :
               /\ Return("copy_openmp_library", Outcome(ok), FALSE, FALSE, "None")
               /\ fs' = [fs EXCEPT !.files = IF ok THEN @ \cup {destination_libomp} ELSE @]
       ELSE /\ Return("copy_openmp_library", "ok", FALSE, FALSE, "None")
            /\ UNCHANGED fs

(***************************************************************************)
(* AOCC: download, extract                                                 *)
(***************************************************************************)
AoccTarball == "aocc-compiler-5.0.0.tar"

\* if not os.path.isfile(tarball): wget url  -- a failing wget leaves nothing
\* or a truncated file.
DownloadAocc ==
    /\ Cur = "download_aocc"
    /\ IF fs.work[AoccTarball] # "absent"
       THEN /\ Return("download_aocc", "ok", TRUE, FALSE, "None")
            /\ UNCHANGED fs
       ELSE \E ok \in BOOLEAN, left \in BOOLEAN :
               /\ Return("download_aocc", Outcome(ok), FALSE, TRUE, "None")
               /\ fs' = [fs EXCEPT !.work[AoccTarball] =
                            IF ok THEN "complete"
                            ELSE IF left THEN "truncated" ELSE "absent"]

\* The directory the archive unpacks to under ~/compiler_installation: the
\* archive's own top-level directory.
AoccArchiveTop == "~/compiler_installation/aocc-compiler-5.0.0"

\* tar -xvf aocc-compiler-5.0.0.tar -C ~/compiler_installation
ExtractAocc ==
    /\ Cur = "extract_aocc"
    /\ \E ok \in BOOLEAN :
          LET good == ok /\ fs.work[AoccTarball] = "complete" IN
          /\ Return("extract_aocc", Outcome(good), FALSE, FALSE, "None")
          /\ fs' = [fs EXCEPT !.tree[AoccArchiveTop] =
                       IF good THEN "complete"
                       ELSE IF @ = "complete" THEN @ ELSE "partial"]

(***************************************************************************)
(* Intel: the vendor installers                                            *)
(***************************************************************************)
\* os.makedirs(install_dir); sh <base toolkit> ...; sh <hpc toolkit> ...
ExtractAndInstall ==
    /\ Cur = "extract_and_install"
    /\ LET dir == run.install_dir IN
       \E ok \in BOOLEAN :
          /\ Return("extract_and_install", Outcome(ok), FALSE, FALSE, "None")
          /\ fs' = [MakeDirs(fs, dir) EXCEPT !.tree[dir] =
                       IF ok THEN "complete"
                       ELSE IF @ = "complete" THEN @ ELSE "partial"]

(***************************************************************************)
(* Module Registrar                                                        *)
(***************************************************************************)
\* The text create_module_file writes, one tuple per line; ${topdir} and
\* $root stand for install_dir and are written out.
Render(fam, version, install_dir) ==
    CASE fam = "gcc" ->
           << <<"#%Module1.0">>,
              <<"ModulesHelp", "GCC version " \o version
                                \o " - sets the environment for gcc-" \o version>>,
              <<"module-whatis", "Sets the environment for GCC version " \o version>>,
              <<"set", "topdir", install_dir>>,
              <<"set", "version", version>>,
              <<"setenv", "CC", install_dir \o "/bin/gcc">>,
              <<"setenv", "CXX", install_dir \o "/bin/g++">>,
              <<"prepend-path", "PATH", install_dir \o "/bin">>,
              <<"prepend-path", "LD_LIBRARY_PATH", install_dir \o "/lib">> >>
      [] fam = "llvm" ->
           << <<"#%Module1.0">>,
              <<"ModulesHelp", "LLVM version " \o version
                                \o " - sets the environment for llvm-" \o version>>,
              <<"module-whatis", "Sets the environment for LLVM version " \o version>>,
              <<"set", "topdir", install_dir>>,
              <<"set", "version", version>>,
              <<"setenv", "CC", install_dir \o "/bin/clang">>,
              <<"setenv", "CXX", install_dir \o "/bin/clang++">>,
              <<"prepend-path", "PATH", install_dir \o "/bin">>,
              <<"prepend-path", "LD_LIBRARY_PATH", install_dir \o "/lib">> >>
      [] fam = "aocc" ->
           << <<"#%Module1.0">>,
              <<"ModulesHelp", "AOCC version " \o version
                                \o " - sets the environment for aocc-" \o version>>,
              <<"module-whatis", "Sets the environment for AOCC version " \o version>>,
              <<"set", "root", install_dir>>,
              <<"setenv", "COMPILERROOT", install_dir>>,
              <<"setenv", "AOCCROOT", install_dir>>,
              <<"setenv", "CC", install_dir \o "/bin/clang">>,
              <<"setenv", "CXX", install_dir \o "/bin/clang++">>,
              <<"setenv", "FC", install_dir \o "/bin/flang">>,
              <<"setenv", "F90", install_dir \o "/bin/flang">>,
              <<"prepend-path", "PATH", install_dir \o "/bin">>,
              <<"prepend-path", "LIBRARY_PATH", install_dir \o "/lib">>,
              <<"prepend-path", "LD_LIBRARY_PATH", install_dir \o "/lib">>,
              <<"prepend-path", "C_INCLUDE_PATH", install_dir \o "/include">>,
              <<"prepend-path", "CPLUS_INCLUDE_PATH", install_dir \o "/include">> >>
      [] fam = "intel" ->
           << <<"#%Module1.0">>,
              <<"ModulesHelp", "Intel oneAPI Base and HPC Toolkits version " \o version
                                \o " - sets the environment for intel-" \o version>>,
              <<"module-whatis",
                "Sets the environment for Intel oneAPI Base and HPC Toolkits version "
                \o version>>,
              <<"set", "topdir", install_dir>>,
              <<"set", "version", version>>,
              <<"setenv", "CC", install_dir \o "/compiler/bin/icx">>,
              <<"setenv", "CXX", install_dir \o "/compiler/bin/icpx">>,
              <<"prepend-path", "PATH", install_dir \o "/compiler/bin">>,
              <<"prepend-path", "LD_LIBRARY_PATH", install_dir \o "/compiler/lib">> >>

\* with open(modulefile_path, 'w') as f: f.write(text)
OpenAppendWrite(old, text) == old \o text
OpenWrite(old, text) == text

\* create_module_file(version, install_dir): the open may fail (the file is
\* left as it was), the write may fail (the open has truncated the file).
CreateModuleFile ==
    /\ Cur = "create_module_file"
    /\ LET path == ModulePath(run.fam, run.version)
           text == Render(run.fam, run.version, run.install_dir) IN
       \E io \in {"ok", "open_failed", "write_failed"} :
          /\ Return("create_module_file", Outcome(io = "ok"), FALSE, FALSE, "None")
          /\ fs' = [fs EXCEPT !.modfiles[path] =
                       CASE io = "ok" ->
                              [exists |-> TRUE, content |-> OpenWrite(@.content, text)]
                         [] io = "open_failed" -> @
                         [] io = "write_failed" ->
                              [exists |-> TRUE, content |-> OpenWrite(@.content, <<>>)]]

(***************************************************************************)
(* Shell Integration                                                       *)
(***************************************************************************)
\* 'export MODULEPATH' not in content
ExportAbsentAlways(content) == TRUE
ExportAbsent(content) == \A i \in 1..Len(content) : content[i] # Needle

\* with open(bashrc_path, 'r') as bashrc: content = bashrc.read()
\* raises IOError when the profile does not exist or cannot be read.
ReadFailsOnlyOnIo(b, io) == io = "read_failed"
ReadFails(b, io) == ~b.exists \/ io = "read_failed"

\* with open(bashrc_path, 'a') as bashrc: bashrc.write(line)
OpenTruncateWrite(old, text) == text
OpenAppend(old, text) == old \o text

\* update_bashrc(): read ~/.bashrc; append the export line when the test
\* finds none.  A profile that does not exist or cannot be read, and an
\* append that cannot be opened, raise IOError.
UpdateBashrc ==
    /\ Cur = "update_bashrc"
    /\ \E io \in {"ok", "read_failed", "append_failed"} :
          IF ReadFails(fs.bashrc, io)
          THEN /\ Return("update_bashrc", "failed", FALSE, FALSE, "None")
               /\ UNCHANGED fs
          ELSE IF ExportAbsent(fs.bashrc.content)
               THEN IF io = "append_failed"
                    THEN /\ Return("update_bashrc", "failed", FALSE, FALSE, "None")
                         /\ UNCHANGED fs
                    ELSE /\ Return("update_bashrc", "ok", FALSE, FALSE, "True")
                         /\ fs' = [fs EXCEPT !.bashrc.content = OpenAppend(@, ExportLine)]
               ELSE /\ Return("update_bashrc", "ok", TRUE, FALSE, "False")
                    /\ UNCHANGED fs

(***************************************************************************)
(* Specification                                                           *)
(***************************************************************************)
Next ==
    \/ Start
    \/ InstallPackages
    \/ InstallEnvironmentModules
    \/ DownloadGcc
    \/ ExtractGcc
    \/ ConfigureGcc
    \/ CompileGcc
    \/ InstallGcc
    \/ CloneLlvm
    \/ BuildLlvm
    \/ DownloadAocc
    \/ ExtractAocc
    \/ ExtractAndInstall
    \/ CreateModuleFile
    \/ UpdateBashrc

Spec == Init /\ [][Next]_vars

\* The same program on a host whose ~/.bashrc may hold any of the profiles.
InitAnyProfile == InitWith(InitialProfiles \cup OtherProfiles) /\ shell = ShellOff
SpecAnyProfile == InitAnyProfile /\ [][Next]_vars

(***************************************************************************)
(* Two runs at the same time                                               *)
(*                                                                         *)
(* Each process is a run that has reached the end of main():               *)
(* create_module_file(version, install_dir), then update_bashrc().  The    *)
(* scripts take no lock, so update_bashrc is two steps another process can *)
(* come between: the read of the profile, and the test with the append.    *)
(***************************************************************************)
\* The requests of the concurrent runs: installations that are complete, so
\* that main() is at its registration calls.  The two runs install different
\* toolchains, so the profile is the only file they share.
ConcurrentRequests ==
    {<<"gcc", "14.2.0">>, <<"gcc", "13.2.0">>, <<"aocc", "5.0.0">>, <<"intel", "2025.0">>}

ProcAt(r) == [fam |-> r[1], version |-> r[2], install_dir |-> InstallDir(r[1], r[2]),
              pc |-> "create_module_file", content |-> <<>>, ret |-> "None", exit |-> 0]

InitConcurrent ==
    /\ \E p \in InitialProfiles, r1 \in ConcurrentRequests :
       \E r2 \in ConcurrentRequests \ {r1} :
          LET reqs == {r1, r2}
              dirs == {InstallDir(r[1], r[2]) : r \in reqs} IN
          /\ profile0 = p
          /\ fs = [tree     |-> [d \in InstallDirs |->
                                    IF d \in dirs THEN "complete" ELSE "absent"],
                   files    |-> {Marker(r[1], InstallDir(r[1], r[2])) :
                                    r \in {q \in reqs : q[1] = "gcc"}},
                   work     |-> [w \in WorkFiles |-> "absent"],
                   modfiles |-> [m \in ModulePaths |-> [exists |-> FALSE, content |-> <<>>]],
                   bashrc   |-> p]
          /\ shell = [proc |-> [q \in Procs |-> IF q = "p1" THEN ProcAt(r1) ELSE ProcAt(r2)]]
    /\ run = NoRun
    /\ status = "idle"
    /\ pc = 0
    /\ exit = 0
    /\ trace = <<>>
    /\ atStart = fs
    /\ prev = [run |-> NoRun, exit |-> 0]
    /\ runs = 0

ConcurrentFrame == UNCHANGED <<run, status, pc, exit, trace, atStart, prev, profile0, runs>>

\* create_module_file(version, install_dir) in process p
ConcCreateModuleFile(p) ==
    /\ shell.proc[p].pc = "create_module_file"
    /\ LET me == shell.proc[p]
           path == ModulePath(me.fam, me.version)
           text == Render(me.fam, me.version, me.install_dir) IN
       \E io \in {"ok", "open_failed", "write_failed"} :
          /\ fs' = [fs EXCEPT !.modfiles[path] =
                       CASE io = "ok" ->
                              [exists |-> TRUE, content |-> OpenWrite(@.content, text)]
                         [] io = "open_failed" -> @
                         [] io = "write_failed" ->
                              [exists |-> TRUE, content |-> OpenWrite(@.content, <<>>)]]
          /\ shell' = [shell EXCEPT !.proc[p] =
                          IF SysExit(Outcome(io = "ok"))
                          THEN [me EXCEPT !.pc = "exited", !.exit = 1]
                          ELSE [me EXCEPT !.pc = "read"]]
    /\ ConcurrentFrame

\* update_bashrc() in process p, first half: content = bashrc.read()
ConcReadProfile(p) ==
    /\ shell.proc[p].pc = "read"
    /\ LET me == shell.proc[p] IN
       \E io \in {"ok", "read_failed"} :
          shell' = IF ReadFails(fs.bashrc, io)
                   THEN [shell EXCEPT !.proc[p] = [me EXCEPT !.pc = "exited", !.exit = 1]]
                   ELSE [shell EXCEPT
                           !.proc[p] = [me EXCEPT !.pc = "test", !.content = fs.bashrc.content]]
    /\ UNCHANGED fs
    /\ ConcurrentFrame

\* update_bashrc() in process p, second half: the test on the content read,
\* the append to the profile as it is now, the return; main() then ends.
ConcTestAppend(p) ==
    /\ shell.proc[p].pc = "test"
    /\ LET me == shell.proc[p] IN
       IF ExportAbsent(me.content)
       THEN \E io \in {"ok", "append_failed"} :
               IF io = "append_failed"
               THEN /\ shell' = [shell EXCEPT !.proc[p] =
                                    [me EXCEPT !.pc = "exited", !.exit = 1]]
                    /\ UNCHANGED fs
               ELSE /\ shell' = [shell EXCEPT !.proc[p] =
                                    [me EXCEPT !.pc = "exited", !.ret = "True"]]
                    /\ fs' = [fs EXCEPT !.bashrc.content = OpenAppend(@, ExportLine)]
       ELSE /\ shell' = [shell EXCEPT !.proc[p] =
                            [me EXCEPT !.pc = "exited", !.ret = "False"]]
            /\ UNCHANGED fs
    /\ ConcurrentFrame

NextConcurrent ==
    \E p \in Procs :
       \/ ConcCreateModuleFile(p)
       \/ ConcReadProfile(p)
       \/ ConcTestAppend(p)

SpecConcurrent == InitConcurrent /\ [][NextConcurrent]_vars

(***************************************************************************)
(* Vocabulary of the properties                                            *)
(***************************************************************************)
PrerequisiteSteps == {"install_packages", "install_environment_modules"}
AcquisitionSteps == {"download_gcc", "clone_llvm", "download_aocc"}
ExtractionSteps == {"extract_gcc", "extract_aocc"}
BuildSteps == {"configure_gcc", "compile_gcc", "install_gcc", "build_llvm",
               "copy_openmp_library", "extract_and_install"}
ExpensiveSteps == PrerequisiteSteps \cup AcquisitionSteps \cup ExtractionSteps \cup BuildSteps
RegistrationSteps == {"create_module_file", "update_bashrc"}

StepsOf(t) == [i \in 1..Len(t) |-> t[i].step]
Executed(step) == \E i \in 1..Len(trace) : trace[i].step = step
Succeeded(step) == \E i \in 1..Len(trace) : trace[i].step = step /\ trace[i].out = "ok"
NothingFailed == \A i \in 1..Len(trace) : trace[i].out # "failed"
Finished == status = "exited" /\ ~run.usage
SameRequestAsBefore ==
    /\ ~run.usage /\ ~prev.run.usage
    /\ prev.run.fam = run.fam
    /\ prev.run.version = run.version

\* Number of copies of the export line in a profile.
CountExport(content) ==
    Cardinality({i \in 1..Len(content) :
                    i + 2 <= Len(content) /\ SubSeq(content, i, i + 2) = ExportLine})
MentionsExport(content) == \E i \in 1..Len(content) : content[i] = Needle

(***************************************************************************)
(* C1  Fail-fast.  In every run, a call that does not succeed is the last  *)
(* call of the run and the run ends with exit status 1; when the failing   *)
(* call is a prerequisite, acquisition, extraction or build step the run   *)
(* has called neither create_module_file nor update_bashrc, and the module *)
(* files and the shell profile are as they were when the run started.      *)
(***************************************************************************)
C1_FailFast ==
    \A i \in 1..Len(trace) :
       trace[i].out # "ok" =>
          /\ i = Len(trace)
          /\ status = "exited"
          /\ exit = 1
          /\ trace[i].step \in ExpensiveSteps =>
                /\ \A j \in 1..Len(trace) : trace[j].step \notin RegistrationSteps
                /\ fs.modfiles = atStart.modfiles
                /\ fs.bashrc = atStart.bashrc

\* A GCC run whose compile step failed, on a host that already has a module file.
C1_Witness ==
    /\ status = "exited" /\ exit = 1
    /\ Len(trace) > 0
    /\ trace[Len(trace)].step = "compile_gcc"
    /\ trace[Len(trace)].out = "failed"
    /\ \E p \in ModulePaths : atStart.modfiles[p].exists

(***************************************************************************)
(* C2  Skip correctness.  For every family, a run that starts with the     *)
(* family's installed marker present (bin/gcc, bin/clang, the installation *)
(* directory for Intel and for AOCC) makes no prerequisite, acquisition,   *)
(* extraction or build call, and when it ends with status 0 it has called  *)
(* create_module_file and then update_bashrc.                              *)
(***************************************************************************)
MarkerAtStart ==
    CASE run.fam = "gcc"   -> (run.install_dir \o "/bin/gcc") \in atStart.files
      [] run.fam = "llvm"  -> (run.install_dir \o "/bin/clang") \in atStart.files
      [] run.fam = "aocc"  -> atStart.tree[run.install_dir] # "absent"
      [] run.fam = "intel" -> atStart.tree[run.install_dir] # "absent"
      [] OTHER -> FALSE

C2_SkipCorrectness ==
    (status # "idle" /\ ~run.usage /\ MarkerAtStart) =>
       /\ \A i \in 1..Len(trace) : trace[i].step \notin ExpensiveSteps
       /\ (status = "exited" /\ exit = 0) => StepsOf(trace) = SkipPipeline

(***************************************************************************)
(* C3  No module for a partial toolchain.  A module file for (family,      *)
(* version) exists only if the build/install step for that installation    *)
(* directory has completed successfully, and a run takes the               *)
(* already-installed path only if it had.                                  *)
(***************************************************************************)
C3_NoModuleForPartial ==
    /\ \A f \in Families : \A v \in VersionsOf(f) :
          fs.modfiles[ModulePath(f, v)].exists => fs.tree[InstallDir(f, v)] = "complete"
    /\ (status # "idle" /\ run.skip) => atStart.tree[run.install_dir] = "complete"

(***************************************************************************)
(* C4  Successful run completes.  A run in which no external command       *)
(* fails ends with exit status 0, and when it started without the          *)
(* installed marker it has made every call of its pipeline in order; exit  *)
(* status 1 occurs only on a usage error or an external-command failure.   *)
(***************************************************************************)
C4_SuccessfulRunCompletes ==
    /\ (Finished /\ NothingFailed) =>
          /\ exit = 0
          /\ ~MarkerAtStart => StepsOf(trace) = Pipeline(run.fam)
    /\ (status = "exited" /\ exit = 1) =>
          (run.usage \/ \E i \in 1..Len(trace) : trace[i].out = "failed")

(***************************************************************************)
(* C5  Resumability.  After a run that failed at some step, a run of the   *)
(* same request in which no external command fails does not take the       *)
(* already-installed path and ends with the toolchain installed, the       *)
(* module file written and exit status 0.                                  *)
(***************************************************************************)
C5_Resumability ==
    (SameRequestAsBefore /\ prev.exit = 1 /\ Finished /\ NothingFailed) =>
       /\ ~run.skip
       /\ exit = 0
       /\ fs.tree[run.install_dir] = "complete"
       /\ fs.modfiles[ModulePath(run.fam, run.version)] =
             [exists |-> TRUE,
              content |-> Render(run.fam, run.version, run.install_dir)]

(***************************************************************************)
(* C6  Step ordering.  In every run the calls made are in phase order:     *)
(* prerequisites, acquisition (with extraction), build/install, module     *)
(* registration, shell integration; no call of a later phase precedes a    *)
(* call of an earlier one and no call is made twice.                       *)
(***************************************************************************)
Phase(step) ==
    CASE step \in PrerequisiteSteps -> 1
      [] step \in AcquisitionSteps \cup ExtractionSteps -> 2
      [] step \in BuildSteps -> 3
      [] step = "create_module_file" -> 4
      [] step = "update_bashrc" -> 5

C6_StepOrdering ==
    \A i \in 1..Len(trace) : \A j \in 1..Len(trace) :
       i < j => /\ Phase(trace[i].step) <= Phase(trace[j].step)
                /\ trace[i].step # trace[j].step

\* A GCC run that went through all five phases.
C6_Witness ==
    /\ status = "exited" /\ exit = 0
    /\ run.fam = "gcc"
    /\ StepsOf(trace) = Pipeline("gcc")

C8_ModuleFileOverwrite ==
    [][ /\ \A p \in ModulePaths :
              fs'.modfiles[p] # fs.modfiles[p] =>
                 (Cur = "create_module_file" /\ p = ModulePath(run.fam, run.version))
        /\ (Cur = "create_module_file" /\ trace'[Len(trace')].out = "ok") =>
              fs'.modfiles[ModulePath(run.fam, run.version)] =
                 [exists |-> TRUE,
                  content |-> Render(run.fam, run.version, run.install_dir)]
      ]_vars

\* The same (family, version) registered by two runs in a row: the second
\* call found the file the first one wrote.
C8_Witness ==
    /\ SameRequestAsBefore /\ prev.exit = 0
    /\ status = "exited" /\ exit = 0
    /\ atStart.modfiles[ModulePath(run.fam, run.version)].exists
    /\ fs.modfiles[ModulePath(run.fam, run.version)].content =
          Render(run.fam, run.version, run.install_dir)

(***************************************************************************)
(* C9  Acquisition cache hit.  For GCC, LLVM and AOCC, when the payload    *)
(* (the GCC tarball, the cloned LLVM repository, the AOCC tarball) is in   *)
(* the working directory as the acquisition step runs, the step does not   *)
(* go to the network, succeeds, and the next step of the pipeline runs.    *)
(***************************************************************************)
C9_AcquisitionCacheHit ==
    \A i \in 1..Len(trace) :
       (trace[i].step \in AcquisitionSteps /\ trace[i].cached) =>
          /\ ~trace[i].net
          /\ trace[i].out = "ok"
          /\ (status = "running" /\ i = Len(trace)) => Cur = Pipeline(run.fam)[i + 1]

(***************************************************************************)
(* C10  Re-run idempotence.  A GCC run for the version of the GCC run      *)
(* before it, which ended with status 0, takes the already-installed path, *)
(* makes no prerequisite, acquisition, extraction or build call, leaves    *)
(* the installation trees, the working directory and the shell profile as  *)
(* they were, and when it ends with status 0 has rewritten the module file *)
(* to what it was: the persistent state equals the state after one run.    *)
(***************************************************************************)
C10_RerunIdempotence ==
    (status # "idle" /\ run.fam = "gcc" /\ SameRequestAsBefore /\ prev.exit = 0) =>
       /\ run.skip
       /\ \A i \in 1..Len(trace) : trace[i].step \notin ExpensiveSteps
       /\ fs.tree = atStart.tree
       /\ fs.files = atStart.files
       /\ fs.work = atStart.work
       /\ fs.bashrc = atStart.bashrc
       /\ (status = "exited" /\ exit = 0) =>
             /\ StepsOf(trace) = SkipPipeline
             /\ fs = atStart

\* A second GCC run for the same version, finished with status 0.
C10_Witness ==
    /\ run.fam = "gcc" /\ SameRequestAsBefore /\ prev.exit = 0
    /\ status = "exited" /\ exit = 0
    /\ Succeeded("create_module_file")
    /\ fs.tree[run.install_dir] = "complete"

DirectoryName(fam) == IF fam = "aocc" THEN "aocc-compiler" ELSE fam

RelativePaths ==
    {"/bin", "/lib", "/include", "/bin/gcc", "/bin/g++", "/bin/gfortran",
     "/bin/clang", "/bin/clang++", "/bin/flang",
     "/compiler/bin", "/compiler/lib", "/compiler/bin/icx", "/compiler/bin/icpx"}
Under(dir) == {dir \o r : r \in RelativePaths}
Sets(text, var, dir) ==
    \E i \in 1..Len(text) :
       Len(text[i]) = 3 /\ text[i][1] = "setenv" /\ text[i][2] = var /\ text[i][3] \in Under(dir)
Prepends(text, var, dir) ==
    /\ \E i \in 1..Len(text) :
          Len(text[i]) = 3 /\ text[i][1] = "prepend-path" /\ text[i][2] = var
          /\ text[i][3] \in Under(dir)
    /\ \A i \in 1..Len(text) :
          (Len(text[i]) = 3 /\ text[i][2] = var) => text[i][1] = "prepend-path"

C13_DescriptorContent ==
    (status # "idle" /\ Succeeded("create_module_file")) =>
       LET text == fs.modfiles[ModulePath(run.fam, run.version)].content
           dir == run.install_dir IN
       /\ Sets(text, "CC", dir) /\ Sets(text, "CXX", dir)
       /\ Prepends(text, "PATH", dir) /\ Prepends(text, "LD_LIBRARY_PATH", dir)
       /\ run.fam = "gcc" => (Sets(text, "FC", dir) /\ Sets(text, "F90", dir))
       /\ run.fam = "aocc" => (/\ Prepends(text, "C_INCLUDE_PATH", dir)
                               /\ Prepends(text, "CPLUS_INCLUDE_PATH", dir))

(***************************************************************************)
(* C14  Shell Integration result and frame.  A call of update_bashrc       *)
(* returns True exactly when it has appended the export line and False     *)
(* exactly when it returns with the profile unchanged; whatever the call   *)
(* does, the profile's previous content is a prefix of the new content,    *)
(* and nothing of the persistent state but the profile changes.            *)
(***************************************************************************)
C14_ShellIntegrationFrame ==
    [][ Cur = "update_bashrc" =>
          LET e == trace'[Len(trace')]
              old == fs.bashrc.content
              new == fs'.bashrc.content IN
          /\ (e.ret = "True") <=> (new = old \o ExportLine)
          /\ (e.ret = "True") <=> (fs'.bashrc # fs.bashrc)
          /\ (e.ret = "False") <=> (e.out = "ok" /\ fs'.bashrc = fs.bashrc)
          /\ fs'.bashrc.exists = fs.bashrc.exists
          /\ Len(new) >= Len(old)
          /\ SubSeq(new, 1, Len(old)) = old
          /\ [fs' EXCEPT !.bashrc = fs.bashrc] = fs
      ]_vars

\* A call that returned True on a profile that already had other content.
C14_Witness ==
    /\ Len(trace) > 0
    /\ trace[Len(trace)].step = "update_bashrc"
    /\ trace[Len(trace)].ret = "True"
    /\ Len(atStart.bashrc.content) > 0
    /\ fs.bashrc.content = atStart.bashrc.content \o ExportLine

(***************************************************************************)
(* C15  Shell Integration postcondition.  For every initial content of an  *)
(* existing shell profile, once update_bashrc has returned the profile     *)
(* holds the export of MODULEPATH that includes $HOME/compiler_modulefiles.*)
(***************************************************************************)
ExposesModulePath(content) ==
    \E i \in 1..Len(content) :
       i + 2 <= Len(content) /\ SubSeq(content, i, i + 2) = ExportLine

C15_ShellIntegrationPostcondition ==
    (status # "idle" /\ Succeeded("update_bashrc")) => ExposesModulePath(fs.bashrc.content)

(***************************************************************************)
(* C16  Registration failure.  When the shell profile does not exist, or   *)
(* cannot be read or appended to, update_bashrc ends the run with exit     *)
(* status 1 and the profile is neither created nor changed; the module     *)
(* file of the request, written just before, stays as written.             *)
(***************************************************************************)
C16_RegistrationFailure ==
    (Executed("update_bashrc")
       /\ (~atStart.bashrc.exists \/ trace[Len(trace)].out = "failed")) =>
       /\ trace[Len(trace)].step = "update_bashrc"
       /\ trace[Len(trace)].out = "failed"
       /\ status = "exited"
       /\ exit = 1
       /\ fs.bashrc = atStart.bashrc
       /\ Succeeded("create_module_file")
       /\ fs.modfiles[ModulePath(run.fam, run.version)] =
             [exists |-> TRUE,
              content |-> Render(run.fam, run.version, run.install_dir)]

\* A run on a host without ~/.bashrc that got as far as update_bashrc.
C16_Witness ==
    /\ ~profile0.exists
    /\ status = "exited" /\ exit = 1
    /\ Executed("update_bashrc")
    /\ ~atStart.modfiles[ModulePath(run.fam, run.version)].exists
    /\ fs.modfiles[ModulePath(run.fam, run.version)].exists

(***************************************************************************)
(* C17  LLVM OpenMP copy.  In an LLVM run that reaches the build and in    *)
(* which no command fails, the build is followed by copy_openmp_library    *)
(* (which copies libomp.so when the architecture-qualified one exists and  *)
(* copies nothing otherwise), then by module registration and shell        *)
(* integration, and the run ends with exit status 0.                       *)
(***************************************************************************)
C17_OpenmpCopy ==
    (run.fam = "llvm" /\ status = "exited" /\ Executed("build_llvm") /\ NothingFailed) =>
       /\ Executed("copy_openmp_library")
       /\ StepsOf(trace) = Pipeline("llvm")
       /\ exit = 0

(***************************************************************************)
(* C18  Concurrent shell integration.  With two runs executing at the same *)
(* time, their steps interleaved, the profile never holds the MODULEPATH   *)
(* export line more than once: no interleaving lets both runs pass the     *)
(* absence test and both append.                                           *)
(***************************************************************************)
C18_AtMostOnceConcurrently ==
    (profile0.exists /\ ~MentionsExport(profile0.content)) =>
       CountExport(fs.bashrc.content) <= 1

(***************************************************************************)
(* C19  GCC payload integrity across runs.  The file gcc-<version>.tar.gz  *)
(* is in the working directory only if its download ran to completion: a   *)
(* download that fails part-way leaves no file, so no later run takes the  *)
(* file for a cache hit, skips the download and extracts a truncated       *)
(* tarball.                                                                *)
(***************************************************************************)
C19_PayloadIntegrity ==
    /\ \A v \in VersionsOf("gcc") : fs.work[GccTarball(v)] \in {"absent", "complete"}
    /\ \A i \in 1..Len(trace) :
          (trace[i].step = "download_gcc" /\ trace[i].cached) =>
             fs.work[GccTarball(run.version)] = "complete"

(***************************************************************************)
(* C20  GCC download progress arithmetic.  download_gcc succeeds whenever  *)
(* the response has a success status and every chunk is written, for every *)
(* value of content-length, absent or 0 included: computing                *)
(* 50 * downloaded_size / total_size never fails, and no transfer that     *)
(* went through ends the run with an acquisition error.                    *)
(***************************************************************************)
C20_ProgressArithmetic ==
    \A i \in 1..Len(trace) :
       trace[i].step = "download_gcc" => trace[i].out # "raised"

====
